---- MODULE Spec2Model ----
(***************************************************************************)
(* Disk-clearing policy of pyanaconda.storage.osinstall.InstallerStorage:  *)
(* should_clear, empty_device, clear_partitions and get_free_space, over a *)
(* bounded device tree; and the life of the storage object around them:    *)
(* storage_initialize, reset, protected devices, the free space snapshot.  *)
(* The device tree itself (devices, formats,                               *)
(* recursive_remove, initialize_disk, ...) belongs to the blivet library   *)
(* that InstallerStorage extends; the operators that stand for library     *)
(* calls say so in their comment.                                          *)
(***************************************************************************)
EXTENDS Integers, Sequences, FiniteSets, TLC

VARIABLES
    devicetree,  \* name -> device record: the visible devices of the tree
    config,      \* StorageDiscoveryConfig of the storage object
    pc,          \* position inside clear_partitions; outside of it "idle", or
                 \* "raised" when the last call ended with an exception
    todo,        \* devices the running loop of clear_partitions still visits
    start,       \* the tree the running/last clear_partitions started from
    log,         \* what the running/last clear_partitions did, in order
    ends,        \* per clear_partitions() call that ended: the tree it started
                 \* from, the tree it left and whether it raised
    sc,          \* <<record>> of the should_clear call a caller made before
                 \* the clearing passes, or <<>>
    free,        \* <<record>> of the get_free_space call made before them, or <<>>
    ksdata,      \* self.ksdata is set (kickstart data attached)
    settings,    \* the externally owned settings (the disk initialization
                 \* module behind STORAGE.get_proxy)
    protected_dev_specs,  \* config.protected_dev_specs
    live,        \* the system: conf.system._is_live_os, and the device that
                 \* /proc/mounts shows behind /run/initramfs/live ("" if none)
    snapshot,    \* self._free_space_snapshot: <<>> for None, else <<report>>
    reads,       \* <<record>> of the last read of free_space_snapshot, or <<>>
    resets,      \* number of reset() and storage_initialize() calls made
    outcome,     \* <<record>> of the last reset() / storage_initialize() call
                 \* and how it ended, or <<>>
    si           \* the running storage_initialize() call, statement by
                 \* statement: its position, its `protected` argument, the
                 \* list config.protected_dev_specs, and how the last
                 \* reset() and the last error handler call ended

\* the storage object outside of a clearing pass, and its environment
life == <<ksdata, settings, protected_dev_specs, live, snapshot, reads, resets, outcome,
          si>>

vars == <<devicetree, config, pc, todo, start, log, ends, sc, free,
          ksdata, settings, protected_dev_specs, live, snapshot, reads, resets,
          outcome, si>>

-----------------------------------------------------------------------------
(* Bounds of the model.                                                    *)

\* clear_partitions() is called at most this many times in one behaviour.
MaxRuns == 2

\* reset() and storage_initialize() are called at most this many times.
MaxResets == 2

-----------------------------------------------------------------------------
(* pyanaconda.core.constants CLEAR_PARTITIONS_*, imported at lines 51-52.  *)

CLEAR_PARTITIONS_DEFAULT == "DEFAULT"
CLEAR_PARTITIONS_NONE == "NONE"
CLEAR_PARTITIONS_LINUX == "LINUX"
CLEAR_PARTITIONS_ALL == "ALL"
CLEAR_PARTITIONS_LIST == "LIST"

Modes == {CLEAR_PARTITIONS_DEFAULT, CLEAR_PARTITIONS_NONE, CLEAR_PARTITIONS_LINUX,
          CLEAR_PARTITIONS_ALL, CLEAR_PARTITIONS_LIST}

\* parted.PARTITION_LVM / PARTITION_RAID / PARTITION_SWAP (lines 874-876)
PARTITION_LVM == "lvm"
PARTITION_RAID == "raid"
PARTITION_SWAP == "swap"

-----------------------------------------------------------------------------
(* Device names, in the name order blivet sorts devices by.                *)

NameOrder == <<"md0", "sda", "sda1", "sda2", "sda3", "sda5", "sdb", "sdb1">>

Names == {NameOrder[i] : i \in 1..Len(NameOrder)}

NameIndex(n) == CHOOSE i \in 1..Len(NameOrder) : NameOrder[i] = n

\* The elements of the set S of names as a sequence in name order.
RECURSIVE SortedByName(_)
SortedByName(S) ==
    IF S = {} THEN <<>>
    ELSE LET m == CHOOSE x \in S : \A y \in S : NameIndex(x) <= NameIndex(y)
         IN  <<m>> \o SortedByName(S \ {m})

-----------------------------------------------------------------------------
(* Formats.  device.format.type is None for "none".                        *)

FormatTypes == {"none", "disklabel", "ext4", "ntfs", "swap", "mdmember",
                "multipath_member"}

\* device.format.linux_native (lines 873, 897)
linux_native(fmt) == fmt \in {"ext4", "swap", "mdmember"}

\* device.format.hidden (line 887)
hidden(fmt) == fmt = "multipath_member"

\* hasattr(format, "free") (lines 499, 501): filesystems report free space
has_free(fmt) == fmt \in {"ext4", "ntfs"}

-----------------------------------------------------------------------------
(* Queries on a device tree t (a function from names to device records).   *)

is_disk(t, d) == t[d].kind = "disk"

\* isinstance(device, PartitionDevice) (line 861)
is_partition(t, d) == t[d].kind = "partition"

\* device.partitioned: the device carries a disklabel
partitioned(t, d) == t[d].fmt = "disklabel"

is_primary(t, d) == t[d].ptype = "primary"
is_logical(t, d) == t[d].ptype = "logical"
is_extended(t, d) == t[d].ptype = "extended"

\* device.children
children(t, d) == {c \in DOMAIN t : d \in t[c].parents}

\* device.ancestors without the device itself
RECURSIVE ancestors(_, _)
ancestors(t, d) ==
    LET ps == t[d].parents \cap DOMAIN t
    IN  ps \cup UNION {ancestors(t, p) : p \in ps}

\* device.disks (blivet): the disks the device depends on, itself included
\* unless its format is hidden
device_disks(t, d) ==
    {x \in ancestors(t, d) \cup {d} : is_disk(t, x) /\ ~hidden(t[x].fmt)}

\* partition.disk
part_disk(t, p) == CHOOSE x \in t[p].parents : TRUE

\* device.depends_on(dep) (blivet): dep is an ancestor, or the device is a
\* logical partition and dep the extended partition of the same disk
depends_on(t, d, dep) ==
    \/ dep \in ancestors(t, d)
    \/ /\ is_partition(t, d) /\ is_logical(t, d)
       /\ is_partition(t, dep) /\ is_extended(t, dep)
       /\ t[d].parents = t[dep].parents

\* device.isleaf (blivet): no children, and not an extended partition that
\* still holds logical partitions
isleaf(t, d) ==
    /\ children(t, d) = {}
    /\ ~(is_partition(t, d) /\ is_extended(t, d)
         /\ \E l \in DOMAIN t : is_partition(t, l) /\ is_logical(t, l)
                                /\ t[l].parents = t[d].parents)

\* devicetree.get_dependent_devices(device) (line 901)
get_dependent_devices(t, dep) ==
    IF isleaf(t, dep) THEN {}
    ELSE {d \in DOMAIN t : depends_on(t, d, dep)}

\* self.partitions (lines 490, 920): the partitions of the tree
partitions(t) == {d \in DOMAIN t : is_partition(t, d)}

\* self.disks (lines 473, 935): the disks of the tree
disks(t) == {d \in DOMAIN t : is_disk(t, d)}

-----------------------------------------------------------------------------
(* Keyword overrides of a should_clear call: `given` names the keywords    *)
(* passed; kwargs.get(key, default) is KwGet.                              *)

KwKeys == {"clear_part_type", "clear_part_disks", "clear_part_devices"}

NoKwargs == [given |-> {}, clear_part_type |-> CLEAR_PARTITIONS_DEFAULT,
             clear_part_disks |-> {}, clear_part_devices |-> {},
             initialize_disks |-> FALSE, clear_non_existent |-> FALSE]

\* KwGet that never finds the keyword
KwGetAmbient(kw, key, default) == default

KwGet(kw, key, default) == IF key \in kw.given THEN kw[key] ELSE default

-----------------------------------------------------------------------------
(* InstallerStorage.empty_device                                           *)

empty_device(t, d) ==
    IF partitioned(t, d)
    THEN \A p \in children(t, d) : t[p].is_magic
    ELSE t[d].fmt = "none"

(* InstallerStorage.should_clear, one conjunct per "return False".         *)

\* InScope that never rejects
InScopeAlways(t, d, clear_part_disks) == TRUE

\* InScope that accepts a device as soon as one of its disks is named
InScopeAnyDisk(t, d, clear_part_disks) ==
    \/ clear_part_disks = {}
    \/ device_disks(t, d) = {}
    \/ device_disks(t, d) \cap clear_part_disks # {}

InScope(t, d, clear_part_disks) ==
    \A disk \in device_disks(t, d) :
        ~(clear_part_disks # {} /\ disk \notin clear_part_disks)

\* ExistenceOk asking device.exists of a disk too, not format.exists
ExistenceOkDevice(t, cfg, d) == cfg.clear_non_existent \/ t[d].exists

\* ExistenceOk that never rejects
ExistenceOkAlways(t, cfg, d) == TRUE

ExistenceOk(t, cfg, d) ==
    cfg.clear_non_existent
    \/ ~( \/ (is_disk(t, d) /\ ~t[d].fmt_exists)
          \/ (~is_disk(t, d) /\ ~t[d].exists) )

\* NoneDefaultOk without the test of initialize_disks
NoneDefaultOkAnyDisk(t, cfg, d, clear_part_type) ==
    clear_part_type \in {CLEAR_PARTITIONS_NONE, CLEAR_PARTITIONS_DEFAULT}
    => /\ is_disk(t, d)
       /\ empty_device(t, d)

NoneDefaultOk(t, cfg, d, clear_part_type) ==
    clear_part_type \in {CLEAR_PARTITIONS_NONE, CLEAR_PARTITIONS_DEFAULT}
    => /\ ~(~cfg.initialize_disks \/ ~is_disk(t, d))
       /\ empty_device(t, d)

\* PartitionOk without the test of is_magic
PartitionOkMagic(t, d, clear_part_type) ==
    /\ ~(~is_primary(t, d) /\ ~is_logical(t, d))
    /\ ~( /\ clear_part_type = CLEAR_PARTITIONS_LINUX
          /\ ~linux_native(t[d].fmt)
          /\ PARTITION_LVM \notin t[d].flags
          /\ PARTITION_RAID \notin t[d].flags
          /\ PARTITION_SWAP \notin t[d].flags )

\* PartitionOk with the format test under the wrong mode constant
PartitionOkWrongMode(t, d, clear_part_type) ==
    /\ ~t[d].is_magic
    /\ ~(~is_primary(t, d) /\ ~is_logical(t, d))
    /\ ~( /\ clear_part_type = CLEAR_PARTITIONS_ALL
          /\ ~linux_native(t[d].fmt)
          /\ PARTITION_LVM \notin t[d].flags
          /\ PARTITION_RAID \notin t[d].flags
          /\ PARTITION_SWAP \notin t[d].flags )

\* PartitionOk without the test of the LVM flag
PartitionOkNoLvm(t, d, clear_part_type) ==
    /\ ~t[d].is_magic
    /\ ~(~is_primary(t, d) /\ ~is_logical(t, d))
    /\ ~( /\ clear_part_type = CLEAR_PARTITIONS_LINUX
          /\ ~linux_native(t[d].fmt)
          /\ PARTITION_RAID \notin t[d].flags
          /\ PARTITION_SWAP \notin t[d].flags )

PartitionOk(t, d, clear_part_type) ==
    /\ ~t[d].is_magic
    /\ ~(~is_primary(t, d) /\ ~is_logical(t, d))
    /\ ~( /\ clear_part_type = CLEAR_PARTITIONS_LINUX
          /\ ~linux_native(t[d].fmt)
          /\ PARTITION_LVM \notin t[d].flags
          /\ PARTITION_RAID \notin t[d].flags
          /\ PARTITION_SWAP \notin t[d].flags )

\* DiskOk without the emptiness test of a partitioned disk
DiskOkNoEmptyTest(t, cfg, d, clear_part_type) ==
    /\ ~hidden(t[d].fmt)
    /\ ~( /\ clear_part_type = CLEAR_PARTITIONS_LINUX
          /\ ~( \/ (cfg.initialize_disks /\ empty_device(t, d))
                \/ (~partitioned(t, d) /\ linux_native(t[d].fmt)) ) )

DiskOk(t, cfg, d, clear_part_type) ==
    /\ (partitioned(t, d) /\ clear_part_type # CLEAR_PARTITIONS_ALL)
          => empty_device(t, d)
    /\ ~hidden(t[d].fmt)
    /\ ~( /\ clear_part_type = CLEAR_PARTITIONS_LINUX
          /\ ~( \/ (cfg.initialize_disks /\ empty_device(t, d))
                \/ (~partitioned(t, d) /\ linux_native(t[d].fmt)) ) )

\* ProtectionOk looking at the device alone
ProtectionOkSelf(t, d) == ~t[d].protected

ProtectionOk(t, d) ==
    LET descendants == get_dependent_devices(t, d)
    IN  ~(t[d].protected \/ \E x \in descendants : t[x].protected)

\* ListOk that never rejects
ListOkAlways(d, clear_part_type, clear_part_devices) == TRUE

ListOk(d, clear_part_type, clear_part_devices) ==
    ~(clear_part_type = CLEAR_PARTITIONS_LIST /\ d \notin clear_part_devices)

should_clear(t, cfg, d, kw) ==
    LET clear_part_type == KwGet(kw, "clear_part_type", cfg.clear_part_type)
        clear_part_disks == KwGet(kw, "clear_part_disks", cfg.clear_part_disks)
        clear_part_devices == KwGet(kw, "clear_part_devices", cfg.clear_part_devices)
    IN  /\ InScope(t, d, clear_part_disks)
        /\ ExistenceOk(t, cfg, d)
        /\ NoneDefaultOk(t, cfg, d, clear_part_type)
        /\ IF is_partition(t, d) THEN PartitionOk(t, d, clear_part_type)
           ELSE IF is_disk(t, d) THEN DiskOk(t, cfg, d, clear_part_type)
           ELSE TRUE
        /\ ProtectionOk(t, d)
        /\ ListOk(d, clear_part_type, clear_part_devices)

-----------------------------------------------------------------------------
(* Changes of the device tree made through the blivet library.            *)

RECURSIVE SumSize(_, _)
SumSize(t, S) ==
    IF S = {} THEN 0
    ELSE LET x == CHOOSE y \in S : TRUE IN t[x].size + SumSize(t, S \ {x})

\* The tree without the devices of `gone`; a disklabel that loses partitions
\* gains their size as unallocated space.
remove_devices(t, gone) ==
    [n \in DOMAIN t \ gone |->
        IF is_disk(t, n) /\ partitioned(t, n)
        THEN [t[n] EXCEPT !.fmt_free =
                 @ + SumSize(t, {p \in gone : is_partition(t, p) /\ n \in t[p].parents})]
        ELSE t[n]]

\* ActionDestroyFormat: device.format = None; the empty format of an existing
\* device exists
destroy_format(t, d) ==
    [t EXCEPT ![d].fmt = "none", ![d].fmt_exists = t[d].exists, ![d].fmt_free = 0]

\* The devices recursive_remove(device) takes out of the tree: every device
\* that depends on it and, unless it is a disk, the device
removed_by(t, d) ==
    get_dependent_devices(t, d) \cup (IF is_disk(t, d) THEN {} ELSE {d})

\* Blivet.recursive_remove(device) (lines 928, 939): the dependent devices
\* are removed, the format is destroyed unless it is immutable (the device
\* protected), the device is removed unless it is a disk
recursive_remove(t, d) ==
    IF is_disk(t, d)
    THEN LET t1 == remove_devices(t, removed_by(t, d))
         IN  IF t[d].protected THEN t1 ELSE destroy_format(t1, d)
    ELSE remove_devices(t, removed_by(t, d))

\* Blivet.initialize_disk(disk) (line 946) raises StorageError when the disk
\* holds partitions other than the magic one
initialize_disk_fails(t, d) ==
    partitioned(t, d) /\ \E p \in children(t, d) : ~t[p].is_magic

\* Blivet.initialize_disk(disk) (line 946): the magic partition leaves the
\* tree and the disk gets a new disklabel, which does not exist yet
initialize_disk(t, d) ==
    LET t1 == remove_devices(t, {p \in children(t, d) : t[p].is_magic})
    IN  [t1 EXCEPT ![d].fmt = "disklabel", ![d].fmt_exists = FALSE,
                   ![d].fmt_free = t[d].size]

\* The extended partitions remove_empty_extended_partitions destroys: those
\* of a partitioned disk without logical partitions
empty_extended(t) ==
    {e \in partitions(t) :
        /\ is_extended(t, e)
        /\ partitioned(t, part_disk(t, e))
        /\ ~\E l \in partitions(t) : is_logical(t, l) /\ t[l].parents = t[e].parents}

\* Blivet.remove_empty_extended_partitions() (line 932), disk by disk in name
\* order: destroy_device(extended) raises ValueError for a protected device
RECURSIVE destroy_in_order(_, _)
destroy_in_order(t, es) ==
    IF es = <<>> THEN [tree |-> t, error |-> FALSE, removed |-> {}]
    ELSE IF t[Head(es)].protected THEN [tree |-> t, error |-> TRUE, removed |-> {}]
    ELSE LET r == destroy_in_order(remove_devices(t, {Head(es)}), Tail(es))
         IN  [r EXCEPT !.removed = @ \cup {Head(es)}]

remove_empty_extended_partitions(t) ==
    destroy_in_order(t, SortedByName(empty_extended(t)))

-----------------------------------------------------------------------------
(* Device records.                                                         *)

Disk(fmt, size, label_free) ==
    [kind |-> "disk", parents |-> {}, exists |-> TRUE, protected |-> FALSE,
     fmt |-> fmt, fmt_exists |-> TRUE, fmt_free |-> label_free, size |-> size,
     ptype |-> "na", is_magic |-> FALSE, number |-> 0, flags |-> {}]

Part(disk, ptype, magic, number, fmt, flags, size, fs_free) ==
    [kind |-> "partition", parents |-> {disk}, exists |-> TRUE, protected |-> FALSE,
     fmt |-> fmt, fmt_exists |-> TRUE, fmt_free |-> fs_free, size |-> size,
     ptype |-> ptype, is_magic |-> magic, number |-> number, flags |-> flags]

Array(members, fmt, size, fs_free) ==
    [kind |-> "md", parents |-> members, exists |-> TRUE, protected |-> FALSE,
     fmt |-> fmt, fmt_exists |-> TRUE, fmt_free |-> fs_free, size |-> size,
     ptype |-> "na", is_magic |-> FALSE, number |-> 0, flags |-> {}]

\* The tree holding the devices of the set S of <<name, record>> pairs.
TreeOf(S) ==
    [n \in {e[1] : e \in S} |-> (CHOOSE e \in S : e[1] = n)[2]]

(* The device trees a scan of the hardware can produce, within the names   *)
(* above: every device and every format exists, nothing is protected yet.  *)

\* sda: Linux and swap partitions; sdb: a blank disk
TreeLinux ==
    TreeOf({ <<"sda", Disk("disklabel", 10, 1)>>,
             <<"sda1", Part("sda", "primary", FALSE, 1, "ext4", {}, 5, 2)>>,
             <<"sda2", Part("sda", "primary", FALSE, 2, "swap", {PARTITION_SWAP}, 4, 0)>>,
             <<"sdb", Disk("none", 8, 0)>> })

\* sda: a magic partition, an extended partition and a logical one;
\* sdb: a foreign filesystem
TreeExtended ==
    TreeOf({ <<"sda", Disk("disklabel", 10, 2)>>,
             <<"sda1", Part("sda", "primary", TRUE, 1, "none", {}, 1, 0)>>,
             <<"sda2", Part("sda", "extended", FALSE, 2, "none", {}, 7, 0)>>,
             <<"sda5", Part("sda", "logical", FALSE, 5, "ext4", {}, 7, 3)>>,
             <<"sdb", Disk("disklabel", 8, 1)>>,
             <<"sdb1", Part("sdb", "primary", FALSE, 1, "ntfs", {}, 7, 4)>> })

\* an array over a partition of each disk
TreeArray ==
    TreeOf({ <<"sda", Disk("disklabel", 10, 0)>>,
             <<"sda1", Part("sda", "primary", FALSE, 1, "mdmember", {PARTITION_RAID}, 10, 0)>>,
             <<"sdb", Disk("disklabel", 8, 1)>>,
             <<"sdb1", Part("sdb", "primary", FALSE, 1, "mdmember", {PARTITION_RAID}, 7, 0)>>,
             <<"md0", Array({"sda1", "sdb1"}, "ext4", 7, 5)>> })

\* unpartitioned disks: a whole-disk Linux filesystem, a multipath member
TreeWhole ==
    TreeOf({ <<"sda", Disk("ext4", 10, 6)>>,
             <<"sdb", Disk("multipath_member", 8, 0)>> })

\* sda: only a magic partition; sdb: a whole-disk foreign filesystem
TreeMagic ==
    TreeOf({ <<"sda", Disk("disklabel", 10, 9)>>,
             <<"sda1", Part("sda", "primary", TRUE, 1, "none", {}, 1, 0)>>,
             <<"sdb", Disk("ntfs", 8, 3)>> })

\* sda: a foreign partition and an unformatted one flagged for LVM;
\* sdb: an empty disklabel
TreeForeign ==
    TreeOf({ <<"sda", Disk("disklabel", 10, 3)>>,
             <<"sda1", Part("sda", "primary", FALSE, 1, "ntfs", {}, 4, 1)>>,
             <<"sda2", Part("sda", "primary", FALSE, 2, "none", {PARTITION_LVM}, 3, 0)>>,
             <<"sdb", Disk("disklabel", 8, 8)>> })

\* a Sun disklabel: its magic third partition spans the disk and shows the
\* filesystem that starts at the beginning of the disk
TreeSun ==
    TreeOf({ <<"sda", Disk("disklabel", 10, 0)>>,
             <<"sda1", Part("sda", "primary", FALSE, 1, "ext4", {}, 10, 2)>>,
             <<"sda3", Part("sda", "primary", TRUE, 3, "ext4", {}, 10, 2)>>,
             <<"sdb", Disk("none", 8, 0)>> })

\* sda: one Linux partition; sdb: an extended partition without logical ones
TreeEmptyExtended ==
    TreeOf({ <<"sda", Disk("disklabel", 10, 0)>>,
             <<"sda1", Part("sda", "primary", FALSE, 1, "ext4", {}, 10, 2)>>,
             <<"sdb", Disk("disklabel", 8, 1)>>,
             <<"sdb1", Part("sdb", "extended", FALSE, 1, "none", {}, 7, 0)>> })

ScannedTrees ==
    {TreeLinux, TreeExtended, TreeArray, TreeWhole, TreeMagic, TreeForeign, TreeSun,
     TreeEmptyExtended}

\* _mark_protected_device: device.protected = True
mark_protected(t, P) ==
    [n \in DOMAIN t |-> IF n \in P THEN [t[n] EXCEPT !.protected = TRUE] ELSE t[n]]

\* A change scheduled before the clearing pass: device d is new (a disk:
\* its format is new), and so is everything built on it.
Planned(t, d) ==
    LET below == {x \in DOMAIN t : d \in ancestors(t, x)}
    IN  [n \in DOMAIN t |->
            IF n \in below \/ (n = d /\ ~is_disk(t, d))
            THEN [t[n] EXCEPT !.exists = FALSE, !.fmt_exists = FALSE]
            ELSE IF n = d THEN [t[n] EXCEPT !.fmt_exists = FALSE]
            ELSE t[n]]

\* The devices a change can be scheduled for: not a disk without format
\* (there is nothing to replace), and neither d nor a device built on it
\* protected (a protected device is one the scan found; its format is
\* immutable).
Plannable(t) ==
    {d \in DOMAIN t :
        /\ ~(is_disk(t, d) /\ t[d].fmt = "none")
        /\ \A x \in DOMAIN t : (x = d \/ d \in ancestors(t, x)) => ~t[x].protected}

\* The trees a clearing pass can start from: a scanned tree with nothing
\* protected, one device protected, or one device and its parents protected
\* (lines 774-780), and at most one scheduled change.
InitialTrees ==
    LET S1 == ScannedTrees
              \cup UNION {{mark_protected(t, {d}) : d \in DOMAIN t} : t \in ScannedTrees}
              \cup UNION {{mark_protected(t, {d} \cup t[d].parents) : d \in DOMAIN t} :
                             t \in ScannedTrees}
    IN  S1 \cup UNION {{Planned(t, d) : d \in Plannable(t)} : t \in S1}

-----------------------------------------------------------------------------
(* StorageDiscoveryConfig                                                   *)

ListChoices == {{"sda2"}, {"sda", "sda1", "sda3", "sda5"}}

ScopeChoices == {{}, {"sda"}, {"sdb"}}

Configs ==
    {c \in [clear_part_type : Modes, clear_part_disks : ScopeChoices,
            clear_part_devices : ListChoices \cup {{}},
            initialize_disks : BOOLEAN, zero_mbr : BOOLEAN,
            clear_non_existent : BOOLEAN] :
        (c.clear_part_type = CLEAR_PARTITIONS_LIST) = (c.clear_part_devices # {})}

\* lines 123-127: the fields update() reads from the settings
SettingsFields ==
    {"clear_part_type", "clear_part_disks", "clear_part_devices",
     "initialize_disks", "zero_mbr"}

\* No storage_initialize() call is running; the list
\* config.protected_dev_specs is empty (line 117).
NotInitializing ==
    [pc |-> "out", protected |-> <<>>, specs |-> <<>>, before |-> 0,
     last |-> "", answer |-> ""]

\* The storage object when a clearing pass can start: reset() has populated
\* the tree and read the settings, changes may have been scheduled since.
Init ==
    /\ devicetree \in InitialTrees
    /\ config \in Configs
    /\ pc = "idle"
    /\ todo = <<>>
    /\ start = devicetree
    /\ log = <<>>
    /\ ends = <<>>
    /\ sc = <<>>
    /\ free = <<>>
    /\ ksdata = TRUE
    /\ settings = [f \in SettingsFields |-> config[f]]
    /\ protected_dev_specs = {}
    /\ live = [is_live_os |-> FALSE, device |-> ""]
    /\ snapshot = <<>>
    /\ reads = <<>>
    /\ resets = 0
    /\ outcome = <<>>
    /\ si = NotInitializing

-----------------------------------------------------------------------------
(* InstallerStorage.clear_partitions, one step per loop iteration.         *)

\* SortedPartitions without reverse=True: ascending partition numbers
RECURSIVE SortedPartitionsAscending(_, _)
SortedPartitionsAscending(t, S) ==
    IF S = {} THEN <<>>
    ELSE LET m == CHOOSE x \in S : \A y \in S :
                      \/ t[x].number < t[y].number
                      \/ (t[x].number = t[y].number /\ NameIndex(x) <= NameIndex(y))
         IN  <<m>> \o SortedPartitionsAscending(t, S \ {m})

\* sorted(self.partitions, key=number, reverse=True): a stable sort of the
\* partitions, which self.partitions lists in name order
RECURSIVE SortedPartitions(_, _)
SortedPartitions(t, S) ==
    IF S = {} THEN <<>>
    ELSE LET m == CHOOSE x \in S : \A y \in S :
                      \/ t[x].number > t[y].number
                      \/ (t[x].number = t[y].number /\ NameIndex(x) <= NameIndex(y))
         IN  <<m>> \o SortedPartitions(t, S \ {m})

Ended(from, t, raised) == [from |-> from, tree |-> t, raised |-> raised]

Entry(op, dev, cleared, removed, initialized, warned) ==
    [op |-> op, dev |-> dev, cleared |-> cleared, removed |-> removed,
     initialized |-> initialized, warned |-> warned]

\* lines 920-922
ClearStart ==
    /\ pc \in {"idle", "raised"}
    /\ Len(ends) < MaxRuns
    /\ pc' = "partitions"
    /\ todo' = SortedPartitions(devicetree, partitions(devicetree))
    /\ start' = devicetree
    /\ log' = <<>>
    /\ sc' = <<>>
    /\ free' = <<>>
    /\ UNCHANGED <<devicetree, config, ends>>
    /\ UNCHANGED life

\* ClearPartition leaving the loop (break) where the code goes on to the
\* next partition (continue)
ClearPartitionBreak ==
    /\ pc = "partitions"
    /\ todo # <<>>
    /\ LET part == Head(todo)
           clear == should_clear(devicetree, config, part, NoKwargs)
       IN  /\ devicetree' = IF clear THEN recursive_remove(devicetree, part)
                            ELSE devicetree
           /\ log' = Append(log, Entry("partition", part, clear,
                                IF clear THEN removed_by(devicetree, part) ELSE {},
                                FALSE, FALSE))
           /\ todo' = IF clear THEN Tail(todo) ELSE <<>>
    /\ UNCHANGED <<config, pc, start, ends, sc, free>>
    /\ UNCHANGED life

\* lines 923-929: one iteration of the loop over the partitions
ClearPartition ==
    /\ pc = "partitions"
    /\ todo # <<>>
    /\ LET part == Head(todo)
           clear == should_clear(devicetree, config, part, NoKwargs)
       IN  /\ devicetree' = IF clear THEN recursive_remove(devicetree, part)
                            ELSE devicetree
           /\ log' = Append(log, Entry("partition", part, clear,
                                IF clear THEN removed_by(devicetree, part) ELSE {},
                                FALSE, FALSE))
    /\ todo' = Tail(todo)
    /\ UNCHANGED <<config, pc, start, ends, sc, free>>
    /\ UNCHANGED life

\* lines 931-932, and line 935: the loop over the disks starts
RemoveEmptyExtended ==
    /\ pc = "partitions"
    /\ todo = <<>>
    /\ LET r == remove_empty_extended_partitions(devicetree)
       IN  /\ devicetree' = r.tree
           /\ log' = Append(log, Entry("extended", "", FALSE, r.removed, FALSE, FALSE))
           /\ pc' = IF r.error THEN "raised" ELSE "disks"
           /\ todo' = IF r.error THEN <<>> ELSE SortedByName(disks(r.tree))
           /\ ends' = IF r.error THEN Append(ends, Ended(start, r.tree, TRUE)) ELSE ends
    /\ UNCHANGED <<config, start, sc, free>>
    /\ UNCHANGED life

\* ClearDisk without the recursive_remove of lines 938-939
ClearDiskNoRemove ==
    /\ pc = "disks"
    /\ todo # <<>>
    /\ LET disk == Head(todo)
           zerombr == config.zero_mbr /\ devicetree[disk].fmt = "none"
           clear == should_clear(devicetree, config, disk, NoKwargs)
           t1 == devicetree
           init == (zerombr \/ clear) /\ ~t1[disk].protected
           fails == init /\ initialize_disk_fails(t1, disk)
           t2 == IF init /\ ~fails THEN initialize_disk(t1, disk) ELSE t1
       IN  /\ devicetree' = t2
           /\ log' = Append(log, Entry("disk", disk, clear, {}, init /\ ~fails,
                                (zerombr \/ clear) /\ t1[disk].protected))
           /\ pc' = IF fails THEN "raised" ELSE "disks"
           /\ todo' = IF fails THEN <<>> ELSE Tail(todo)
           /\ ends' = IF fails THEN Append(ends, Ended(start, t2, TRUE)) ELSE ends
    /\ UNCHANGED <<config, start, sc, free>>
    /\ UNCHANGED life

\* lines 935-946: one iteration of the loop over the disks
ClearDisk ==
    /\ pc = "disks"
    /\ todo # <<>>
    /\ LET disk == Head(todo)
           zerombr == config.zero_mbr /\ devicetree[disk].fmt = "none"
           clear == should_clear(devicetree, config, disk, NoKwargs)
           t1 == IF clear THEN recursive_remove(devicetree, disk) ELSE devicetree
           init == (zerombr \/ clear) /\ ~t1[disk].protected
           fails == init /\ initialize_disk_fails(t1, disk)
           t2 == IF init /\ ~fails THEN initialize_disk(t1, disk) ELSE t1
       IN  /\ devicetree' = t2
           /\ log' = Append(log, Entry("disk", disk, clear,
                                IF clear THEN removed_by(devicetree, disk) ELSE {},
                                init /\ ~fails,
                                (zerombr \/ clear) /\ t1[disk].protected))
           /\ pc' = IF fails THEN "raised" ELSE "disks"
           /\ todo' = IF fails THEN <<>> ELSE Tail(todo)
           /\ ends' = IF fails THEN Append(ends, Ended(start, t2, TRUE)) ELSE ends
    /\ UNCHANGED <<config, start, sc, free>>
    /\ UNCHANGED life

\* line 948: the pass is over
ClearFinish ==
    /\ pc = "disks"
    /\ todo = <<>>
    /\ pc' = "idle"
    /\ ends' = Append(ends, Ended(start, devicetree, FALSE))
    /\ UNCHANGED <<devicetree, config, todo, start, log, sc, free>>
    /\ UNCHANGED life

clear_partitions ==
    ClearStart \/ ClearPartition \/ RemoveEmptyExtended \/ ClearDisk \/ ClearFinish

Next == clear_partitions

Spec == Init /\ [][Next]_vars

-----------------------------------------------------------------------------
(* A caller asks should_clear about one device, with or without overrides, *)
(* once, before the first clearing pass.                                   *)

Kwargs(given, type, ds, devs) ==
    [given |-> given, clear_part_type |-> type, clear_part_disks |-> ds,
     clear_part_devices |-> devs,
     initialize_disks |-> FALSE, clear_non_existent |-> FALSE]

\* A call that passes initialize_disks or clear_non_existent as keywords:
\* **kwargs takes them, and should_clear never looks them up.
KwargsFlags(given, initialize_disks, clear_non_existent) ==
    [NoKwargs EXCEPT !.given = given, !.initialize_disks = initialize_disks,
                     !.clear_non_existent = clear_non_existent]

KwargsChoices ==
    {NoKwargs}
    \cup {Kwargs({"clear_part_type"}, m, {}, {}) : m \in Modes}
    \cup {Kwargs({"clear_part_type", "clear_part_disks"}, m, ds, {}) :
              m \in {CLEAR_PARTITIONS_ALL, CLEAR_PARTITIONS_LINUX},
              ds \in {{"sda"}, {"sdb"}, {"sda", "sdb"}}}
    \cup {Kwargs({"clear_part_devices"}, CLEAR_PARTITIONS_DEFAULT, {}, l) : l \in ListChoices}
    \cup {KwargsFlags({"initialize_disks"}, b, FALSE) : b \in BOOLEAN}
    \cup {KwargsFlags({"clear_non_existent"}, FALSE, b) : b \in BOOLEAN}

ShouldClearCall ==
    /\ pc = "idle"
    /\ ends = <<>>
    /\ sc = <<>>
    /\ \E d \in DOMAIN devicetree, kw \in KwargsChoices :
          sc' = <<[dev |-> d, kw |-> kw,
                   result |-> should_clear(devicetree, config, d, kw)]>>
    /\ UNCHANGED <<devicetree, config, pc, todo, start, log, ends, free>>
    /\ UNCHANGED life

\* should_clear does not read zero_mbr
InitQuery == Init /\ ~config.zero_mbr

SpecPolicy == InitQuery /\ [][ShouldClearCall]_vars

\* Mode LIST: a should_clear call, then clearing passes.
InitList == Init /\ config.clear_part_type = CLEAR_PARTITIONS_LIST

SpecList == InitList /\ [][clear_partitions \/ ShouldClearCall]_vars

-----------------------------------------------------------------------------
(* InstallerStorage.get_free_space                                         *)

RECURSIVE SumFree(_, _)
SumFree(t, S) ==
    IF S = {} THEN 0
    ELSE LET x == CHOOSE y \in S : TRUE IN t[x].fmt_free + SumFree(t, S \ {x})

\* disk_partitions without the filter on the disk
disk_partitionsAll(t, disk) == partitions(t)

\* line 490: the partitions the loop visits for a disk
disk_partitions(t, disk) == {p \in partitions(t) : part_disk(t, p) = disk}

\* disk_free_space without the `continue` of line 483: the entry of an
\* approved disk is overwritten by what the rest of the loop body computes
disk_free_spaceNoContinue(t, cfg, disk, clear_part_type) ==
    LET kw == Kwargs({"clear_part_type", "clear_part_disks"}, clear_part_type, {disk}, {})
    IN  IF partitioned(t, disk)
        THEN LET ps == disk_partitions(t, disk)
                 cleared == {p \in ps : should_clear(t, cfg, p, kw)}
                 shrinkable == {p \in ps \ cleared : has_free(t[p].fmt)}
             IN  <<t[disk].fmt_free + SumSize(t, cleared), SumFree(t, shrinkable)>>
        ELSE IF has_free(t[disk].fmt) THEN <<0, t[disk].fmt_free>>
        ELSE IF t[disk].fmt = "none" THEN <<t[disk].size, 0>>
        ELSE <<0, 0>>

\* disk_free_space without the clear_part_disks keyword of lines 481 and 498
disk_free_spaceAmbientScope(t, cfg, disk, clear_part_type) ==
    LET kw == Kwargs({"clear_part_type"}, clear_part_type, {}, {})
    IN  IF should_clear(t, cfg, disk, kw) THEN <<t[disk].size, 0>>
        ELSE IF partitioned(t, disk)
        THEN LET ps == disk_partitions(t, disk)
                 cleared == {p \in ps : should_clear(t, cfg, p, kw)}
                 shrinkable == {p \in ps \ cleared : has_free(t[p].fmt)}
             IN  <<t[disk].fmt_free + SumSize(t, cleared), SumFree(t, shrinkable)>>
        ELSE IF has_free(t[disk].fmt) THEN <<0, t[disk].fmt_free>>
        ELSE IF t[disk].fmt = "none" THEN <<t[disk].size, 0>>
        ELSE <<0, 0>>

\* lines 480-506: the entry of one disk; clear_part_type is the effective type
disk_free_space(t, cfg, disk, clear_part_type) ==
    LET kw == Kwargs({"clear_part_type", "clear_part_disks"}, clear_part_type, {disk}, {})
    IN  IF should_clear(t, cfg, disk, kw) THEN <<t[disk].size, 0>>
        ELSE IF partitioned(t, disk)
        THEN LET ps == disk_partitions(t, disk)
                 cleared == {p \in ps : should_clear(t, cfg, p, kw)}
                 shrinkable == {p \in ps \ cleared : has_free(t[p].fmt)}
             IN  <<t[disk].fmt_free + SumSize(t, cleared), SumFree(t, shrinkable)>>
        ELSE IF has_free(t[disk].fmt) THEN <<0, t[disk].fmt_free>>
        ELSE IF t[disk].fmt = "none" THEN <<t[disk].size, 0>>
        ELSE <<0, 0>>

\* lines 472-508; clear_part_type "" stands for None (not given)
get_free_space(t, cfg, ds, clear_part_type) ==
    LET type == IF clear_part_type = "" THEN cfg.clear_part_type ELSE clear_part_type
    IN  [d \in ds |-> disk_free_space(t, cfg, d, type)]

GetFreeSpaceCall ==
    /\ pc = "idle"
    /\ free = <<>>
    /\ \E ds \in (SUBSET disks(devicetree)) \ {{}}, type \in Modes \cup {""} :
          free' = <<[disks |-> ds, clear_part_type |-> type,
                     report |-> get_free_space(devicetree, config, ds, type)]>>
    /\ UNCHANGED <<devicetree, config, pc, todo, start, log, ends, sc>>
    /\ UNCHANGED life

SpecFree == InitQuery /\ [][GetFreeSpaceCall]_vars

-----------------------------------------------------------------------------
(* The life of the storage object: construction, storage_initialize,       *)
(* reset, the free space snapshot, clearing passes.                        *)

\* StorageDiscoveryConfig.__init__
DefaultConfig ==
    [clear_part_type |-> CLEAR_PARTITIONS_DEFAULT, clear_part_disks |-> {},
     clear_part_devices |-> {}, initialize_disks |-> FALSE, zero_mbr |-> FALSE,
     clear_non_existent |-> FALSE]

\* StorageDiscoveryConfig.update: the five fields are read from the settings
update(cfg, st) ==
    [f \in DOMAIN cfg |-> IF f \in SettingsFields THEN st[f] ELSE cfg[f]]

\* Values the externally owned settings take.
SettingsChoices ==
    { [clear_part_type |-> CLEAR_PARTITIONS_DEFAULT, clear_part_disks |-> {},
       clear_part_devices |-> {}, initialize_disks |-> FALSE, zero_mbr |-> FALSE],
      [clear_part_type |-> CLEAR_PARTITIONS_ALL, clear_part_disks |-> {},
       clear_part_devices |-> {}, initialize_disks |-> TRUE, zero_mbr |-> TRUE] }

\* The tree of a storage object that has not scanned yet.
NoDevices == TreeOf({})

\* What a scan (super().reset()) can find on the machine.
HardwareTrees == {NoDevices, TreeArray}

\* The `protected` argument of storage_initialize; "sdc1" names no device.
ProtectedChoices == {{}, {"sda1"}, {"sdc1"}}

LiveChoices == [is_live_os : BOOLEAN, device : {"", "md0"}]

\* lines 734-740: the names the specs resolve to (devicetree.resolve_device
\* finds a device by its name here, or nothing)
resolve_protected_device_specs(t, specs) == {s \in specs : s \in DOMAIN t}

\* lines 742-763: the name of the device behind /run/initramfs/live, as a set
find_live_backing_device(lv) == IF lv.device = "" THEN {} ELSE {lv.device}

\* protected_device_handling marking every ancestor of the live backing device
protected_device_handlingAncestors(t, specs, lv) ==
    LET names == resolve_protected_device_specs(t, specs)
                     \cup find_live_backing_device(lv)
        found == names \cap DOMAIN t
        above == UNION {ancestors(t, d) : d \in found \cap find_live_backing_device(lv)}
    IN  mark_protected(t, found \cup above)

\* lines 722-728 with 765-780: every named device is marked, and the parents
\* of the live backing device
protected_device_handling(t, specs, lv) ==
    LET names == resolve_protected_device_specs(t, specs)
                     \cup find_live_backing_device(lv)
        found == names \cap DOMAIN t
        above == UNION {t[d].parents : d \in found \cap find_live_backing_device(lv)}
    IN  mark_protected(t, found \cup above)

\* lines 726-728: get_device_by_name returns None for the live backing device
\* when the tree does not hold it, and _mark_protected_device(None) raises
marking_raises(t, lv) == \E n \in find_live_backing_device(lv) : n \notin DOMAIN t

\* lines 688-696: config.update() is called only with kickstart data attached
reset_config == IF ksdata THEN update(config, settings) ELSE config

\* The settings change outside of the storage object (between two calls:
\* the storage object reads them in reset() only).
SettingsChange ==
    /\ pc \in {"idle", "raised"}
    /\ \E st \in SettingsChoices \ {settings} : settings' = st
    /\ UNCHANGED <<devicetree, config, pc, todo, start, log, ends, sc, free>>
    /\ UNCHANGED <<ksdata, protected_dev_specs, live, snapshot, reads, resets, outcome, si>>

Outcome(op, protected, result) == [op |-> op, protected |-> protected, result |-> result]

\* lines 661-732
reset ==
    /\ pc \in {"idle", "raised"}
    /\ resets < MaxResets
    /\ resets' = resets + 1
    /\ config' = reset_config
    /\ \E hw \in HardwareTrees :
          /\ devicetree' = protected_device_handling(hw, protected_dev_specs, live)
          /\ outcome' = <<Outcome("reset", {},
                                  IF marking_raises(hw, live) THEN "AttributeError"
                                  ELSE "ok")>>
    /\ UNCHANGED <<pc, todo, start, log, ends, sc, free>>
    /\ UNCHANGED <<ksdata, settings, protected_dev_specs, live, snapshot, reads, si>>

\* lines 1137-1165; a StorageError of the scan ends the call when the error
\* handler answers ERROR_RAISE (the tree then holds none of the devices), and
\* is retried otherwise.  The disk selection of lines 1167-1176 lives in
\* another settings module and is no part of this state.
storage_initialize ==
    /\ pc \in {"idle", "raised"}
    /\ resets < MaxResets
    /\ resets' = resets + 1
    /\ config' = reset_config
    /\ \E protected \in ProtectedChoices, hw \in HardwareTrees, raised \in BOOLEAN :
          LET specs == protected_dev_specs \cup protected
              t == protected_device_handling(hw, specs, live)
          IN  /\ protected_dev_specs' = specs
              /\ devicetree' = IF raised THEN NoDevices ELSE t
              /\ outcome' = <<Outcome("storage_initialize", protected,
                    IF raised THEN "StorageError"
                    ELSE IF marking_raises(hw, live) THEN "AttributeError"
                    ELSE IF /\ protected # {}
                            /\ ~live.is_live_os
                            /\ ~\E d \in DOMAIN t : t[d].protected
                         THEN "UnknownSourceDeviceError"
                    ELSE "ok")>>
    /\ UNCHANGED <<pc, todo, start, log, ends, sc, free>>
    /\ UNCHANGED <<ksdata, settings, live, snapshot, reads, si>>

\* lines 432-437: reading the property free_space_snapshot
free_space_snapshot ==
    /\ pc \in {"idle", "raised"}
    /\ LET compute == snapshot = <<>> \/ DOMAIN snapshot[1] = {}
           value == IF compute
                    THEN get_free_space(devicetree, config, disks(devicetree), "")
                    ELSE snapshot[1]
       IN  /\ snapshot' = <<value>>
           /\ reads' = <<[value |-> value, computed |-> compute]>>
    /\ UNCHANGED <<devicetree, config, pc, todo, start, log, ends, sc, free>>
    /\ UNCHANGED <<ksdata, settings, protected_dev_specs, live, resets, outcome, si>>

\* lines 439-442
create_free_space_snapshot ==
    /\ pc \in {"idle", "raised"}
    /\ snapshot' = <<get_free_space(devicetree, config, disks(devicetree), "")>>
    /\ UNCHANGED <<devicetree, config, pc, todo, start, log, ends, sc, free>>
    /\ UNCHANGED <<ksdata, settings, protected_dev_specs, live, reads, resets, outcome, si>>

\* lines 133-164: the storage object after construction, and its environment
InitLife ==
    /\ devicetree = NoDevices
    /\ config = DefaultConfig
    /\ pc = "idle"
    /\ todo = <<>>
    /\ start = devicetree
    /\ log = <<>>
    /\ ends = <<>>
    /\ sc = <<>>
    /\ free = <<>>
    /\ ksdata \in BOOLEAN
    /\ settings \in SettingsChoices
    /\ protected_dev_specs = {}
    /\ live \in LiveChoices
    /\ snapshot = <<>>
    /\ reads = <<>>
    /\ resets = 0
    /\ outcome = <<>>
    /\ si = NotInitializing

NextLife ==
    \/ SettingsChange
    \/ storage_initialize
    \/ reset
    \/ free_space_snapshot
    \/ create_free_space_snapshot
    \/ clear_partitions

SpecLife == InitLife /\ [][NextLife]_vars

-----------------------------------------------------------------------------
(* storage_initialize statement by statement: the retry loop around        *)
(* reset() and the error handler.                                          *)

\* What error_handler.cb can answer (pyanaconda.errors, imported at line 60)
ERROR_RAISE == "ERROR_RAISE"
ErrorAnswers == {ERROR_RAISE, "ERROR_CONTINUE", "ERROR_RETRY"}

\* The `protected` argument of storage_initialize as the list it is
ProtectedLists == {<<>>, <<"sda1">>, <<"sdc1">>}

Elements(q) == {q[i] : i \in 1..Len(q)}

\* lines 1137-1148: the call starts and extends config.protected_dev_specs
InitializeStart ==
    /\ pc \in {"idle", "raised"}
    /\ si.pc = "out"
    /\ resets < MaxResets
    /\ resets' = resets + 1
    /\ \E protected \in ProtectedLists :
          si' = [pc |-> "loop", protected |-> protected,
                 specs |-> IF protected # <<>> THEN si.specs \o protected ELSE si.specs,
                 before |-> Len(si.specs), last |-> "", answer |-> ""]
    /\ protected_dev_specs' = Elements(si'.specs)
    /\ outcome' = <<>>
    /\ UNCHANGED <<devicetree, config, pc, todo, start, log, ends, sc, free>>
    /\ UNCHANGED <<ksdata, settings, live, snapshot, reads>>

\* lines 1150-1153: one storage.reset() inside the try; a StorageError of
\* the scan goes to the except clause, any other exception leaves the call
InitializeReset ==
    /\ si.pc = "loop"
    /\ config' = reset_config
    /\ \E hw \in HardwareTrees, raised \in BOOLEAN :
          LET t == protected_device_handling(hw, protected_dev_specs, live)
              other == ~raised /\ marking_raises(hw, live)
          IN  /\ devicetree' = IF raised THEN NoDevices ELSE t
              /\ si' = [si EXCEPT !.pc = IF raised THEN "except"
                                         ELSE IF other THEN "out" ELSE "else",
                                  !.last = IF raised THEN "StorageError"
                                           ELSE IF other THEN "AttributeError" ELSE "ok"]
              /\ outcome' = IF other
                            THEN <<Outcome("storage_initialize", Elements(si.protected),
                                           "AttributeError")>>
                            ELSE outcome
    /\ UNCHANGED <<pc, todo, start, log, ends, sc, free>>
    /\ UNCHANGED <<ksdata, settings, protected_dev_specs, live, snapshot, reads, resets>>

\* line 1155: error_handler.cb(e) answers
ErrorHandler ==
    /\ si.pc = "except"
    /\ \E a \in ErrorAnswers : si' = [si EXCEPT !.pc = "answered", !.answer = a]
    /\ UNCHANGED <<devicetree, config, pc, todo, start, log, ends, sc, free>>
    /\ UNCHANGED <<ksdata, settings, protected_dev_specs, live, snapshot, reads, resets,
                   outcome>>

\* Reraise going round the loop again
ReraiseRetries ==
    /\ si.pc = "answered"
    /\ si.answer = ERROR_RAISE
    /\ si' = [si EXCEPT !.pc = "loop"]
    /\ UNCHANGED <<devicetree, config, pc, todo, start, log, ends, sc, free>>
    /\ UNCHANGED <<ksdata, settings, protected_dev_specs, live, snapshot, reads, resets,
                   outcome>>

\* lines 1155-1156: the answer is ERROR_RAISE and the StorageError goes on to
\* the caller
Reraise ==
    /\ si.pc = "answered"
    /\ si.answer = ERROR_RAISE
    /\ si' = [si EXCEPT !.pc = "out"]
    /\ outcome' = <<Outcome("storage_initialize", Elements(si.protected), "StorageError")>>
    /\ UNCHANGED <<devicetree, config, pc, todo, start, log, ends, sc, free>>
    /\ UNCHANGED <<ksdata, settings, protected_dev_specs, live, snapshot, reads, resets>>

\* lines 1157-1158: any other answer continues the loop
Continue ==
    /\ si.pc = "answered"
    /\ si.answer # ERROR_RAISE
    /\ si' = [si EXCEPT !.pc = "loop"]
    /\ UNCHANGED <<devicetree, config, pc, todo, start, log, ends, sc, free>>
    /\ UNCHANGED <<ksdata, settings, protected_dev_specs, live, snapshot, reads, resets,
                   outcome>>

\* lines 1159-1165: the else clause breaks the loop, and the test for the
\* source device follows
InitializeFinish ==
    /\ si.pc = "else"
    /\ si' = [si EXCEPT !.pc = "out"]
    /\ outcome' = <<Outcome("storage_initialize", Elements(si.protected),
                            IF /\ si.protected # <<>>
                               /\ ~live.is_live_os
                               /\ ~\E d \in DOMAIN devicetree : devicetree[d].protected
                            THEN "UnknownSourceDeviceError" ELSE "ok")>>
    /\ UNCHANGED <<devicetree, config, pc, todo, start, log, ends, sc, free>>
    /\ UNCHANGED <<ksdata, settings, protected_dev_specs, live, snapshot, reads, resets>>

NextInit ==
    \/ InitializeStart
    \/ InitializeReset
    \/ ErrorHandler
    \/ Reraise
    \/ Continue
    \/ InitializeFinish

SpecInit == InitLife /\ [][NextInit]_vars

\* A running call executes its next statement.
SpecInitFair ==
    /\ SpecInit
    /\ WF_vars(InitializeReset)
    /\ WF_vars(ErrorHandler)
    /\ WF_vars(Reraise)
    /\ WF_vars(Continue)
    /\ WF_vars(InitializeFinish)

-----------------------------------------------------------------------------
(* The recorded should_clear call and its effective configuration.         *)

CallType == KwGet(sc[1].kw, "clear_part_type", config.clear_part_type)
CallDisks == KwGet(sc[1].kw, "clear_part_disks", config.clear_part_disks)
CallDevices == KwGet(sc[1].kw, "clear_part_devices", config.clear_part_devices)

\* Some device that depends on d carries the protected flag.
DependentProtected(t, d) ==
    \E x \in DOMAIN t : depends_on(t, x, d) /\ t[x].protected

\* The tree with every protected flag cleared.
Unprotected(t) == [n \in DOMAIN t |-> [t[n] EXCEPT !.protected = FALSE]]

\* C1: whatever the mode and the configuration, overrides included,
\* should_clear(d) is False when d is protected or a device that depends on
\* d is protected.
C1_ProtectedNeverCleared ==
    sc # <<>> =>
        LET d == sc[1].dev
        IN  (devicetree[d].protected \/ DependentProtected(devicetree, d))
                => ~sc[1].result

\* sdc1 protected, mode ALL: should_clear of the parent disk is False, and
\* only because of the protected partition.
C1_Witness ==
    /\ sc # <<>>
    /\ CallType = CLEAR_PARTITIONS_ALL
    /\ is_disk(devicetree, sc[1].dev)
    /\ ~devicetree[sc[1].dev].protected
    /\ \E p \in children(devicetree, sc[1].dev) : devicetree[p].protected
    /\ ~sc[1].result
    /\ should_clear(Unprotected(devicetree), config, sc[1].dev, sc[1].kw)

\* C3: should_clear is False for a magic partition and for a partition that
\* is neither primary nor logical, under every mode and configuration.
C3_MagicAndExtendedNeverCleared ==
    sc # <<>> =>
        LET d == sc[1].dev
        IN  ( /\ is_partition(devicetree, d)
              /\ \/ devicetree[d].is_magic
                 \/ (~is_primary(devicetree, d) /\ ~is_logical(devicetree, d)) )
                => ~sc[1].result

\* A magic partition that passes every other filter under mode ALL.
C3_Witness ==
    /\ sc # <<>>
    /\ is_partition(devicetree, sc[1].dev)
    /\ devicetree[sc[1].dev].is_magic
    /\ CallType = CLEAR_PARTITIONS_ALL
    /\ InScope(devicetree, sc[1].dev, CallDisks)
    /\ devicetree[sc[1].dev].exists
    /\ ~devicetree[sc[1].dev].protected
    /\ ~sc[1].result

\* The recorded call repeated with clear_part_type overridden to `type`.
WithType(kw, type) ==
    [kw EXCEPT !.given = @ \cup {"clear_part_type"}, !.clear_part_type = type]

\* C6: with everything else fixed, a device should_clear accepts under mode
\* LINUX, NONE or DEFAULT is accepted under mode ALL.
C6_AllIsSuperset ==
    sc # <<>> =>
        LET accepted == /\ sc[1].result
                        /\ CallType \in {CLEAR_PARTITIONS_LINUX, CLEAR_PARTITIONS_NONE,
                                         CLEAR_PARTITIONS_DEFAULT}
        IN  accepted => should_clear(devicetree, config, sc[1].dev,
                                     WithType(sc[1].kw, CLEAR_PARTITIONS_ALL))

\* A partition accepted under mode LINUX.
C6_Witness ==
    /\ sc # <<>>
    /\ sc[1].result
    /\ CallType = CLEAR_PARTITIONS_LINUX
    /\ is_partition(devicetree, sc[1].dev)

\* The partition carries the LVM, RAID or swap flag.
HasRoleFlag(t, d) ==
    t[d].flags \cap {PARTITION_LVM, PARTITION_RAID, PARTITION_SWAP} # {}

\* C7 as stated: under mode LINUX an existing, unprotected, non-magic primary
\* or logical partition in scope is cleared iff its format is Linux-native
\* or it carries the LVM, RAID or swap flag.
C7_Original ==
    sc # <<>> =>
        LET d == sc[1].dev
            t == devicetree
        IN  ( /\ CallType = CLEAR_PARTITIONS_LINUX
              /\ is_partition(t, d) /\ t[d].exists /\ ~t[d].protected
              /\ ~t[d].is_magic /\ (is_primary(t, d) \/ is_logical(t, d))
              /\ InScope(t, d, CallDisks) )
                => (sc[1].result <=> (linux_native(t[d].fmt) \/ HasRoleFlag(t, d)))

\* C7 amended: the same, for a partition no protected device depends on.
C7_LinuxModePartitions ==
    sc # <<>> =>
        LET d == sc[1].dev
            t == devicetree
        IN  ( /\ CallType = CLEAR_PARTITIONS_LINUX
              /\ is_partition(t, d) /\ t[d].exists /\ ~t[d].protected
              /\ ~DependentProtected(t, d)
              /\ ~t[d].is_magic /\ (is_primary(t, d) \/ is_logical(t, d))
              /\ InScope(t, d, CallDisks) )
                => (sc[1].result <=> (linux_native(t[d].fmt) \/ HasRoleFlag(t, d)))

\* sda with sda1 (Linux native) and sda2 (swap), mode LINUX, clear_part_disks
\* empty, initialize_disks False: should_clear(sda2) is True.
C7_Witness ==
    /\ sc # <<>>
    /\ devicetree = TreeLinux
    /\ sc[1].kw = NoKwargs
    /\ config.clear_part_type = CLEAR_PARTITIONS_LINUX
    /\ config.clear_part_disks = {}
    /\ ~config.initialize_disks
    /\ sc[1].dev = "sda2"
    /\ sc[1].result

\* "Empty" as the claim words it.
EmptyAsStated(t, d) ==
    \/ (partitioned(t, d) /\ \A p \in DOMAIN t : d \in t[p].parents => t[p].is_magic)
    \/ (~partitioned(t, d) /\ t[d].fmt = "none")

\* C8 as stated: under NONE or DEFAULT only an empty whole disk is accepted
\* and only with initialize_disks; an existing, unprotected, unpartitioned
\* disk without format gives, under DEFAULT, the value of initialize_disks.
C8_Original ==
    sc # <<>> =>
        LET d == sc[1].dev
            t == devicetree
        IN  /\ (CallType \in {CLEAR_PARTITIONS_NONE, CLEAR_PARTITIONS_DEFAULT}
                    /\ sc[1].result)
                  => (is_disk(t, d) /\ config.initialize_disks /\ EmptyAsStated(t, d))
            /\ ( /\ CallType = CLEAR_PARTITIONS_DEFAULT
                 /\ is_disk(t, d) /\ t[d].exists /\ ~t[d].protected
                 /\ ~partitioned(t, d) /\ t[d].fmt = "none" )
                  => (sc[1].result = config.initialize_disks)

\* C8 amended: the second part holds for a disk that passes the disk scope
\* filter.
C8_NoneDefaultOnlyEmptyDisks ==
    sc # <<>> =>
        LET d == sc[1].dev
            t == devicetree
        IN  /\ (CallType \in {CLEAR_PARTITIONS_NONE, CLEAR_PARTITIONS_DEFAULT}
                    /\ sc[1].result)
                  => (is_disk(t, d) /\ config.initialize_disks /\ EmptyAsStated(t, d))
            /\ ( /\ CallType = CLEAR_PARTITIONS_DEFAULT
                 /\ is_disk(t, d) /\ t[d].exists /\ ~t[d].protected
                 /\ ~partitioned(t, d) /\ t[d].fmt = "none"
                 /\ InScope(t, d, CallDisks) )
                  => (sc[1].result = config.initialize_disks)

\* An unpartitioned disk without format accepted under DEFAULT.
C8_Witness ==
    /\ sc # <<>>
    /\ CallType = CLEAR_PARTITIONS_DEFAULT
    /\ is_disk(devicetree, sc[1].dev)
    /\ devicetree[sc[1].dev].fmt = "none"
    /\ config.initialize_disks
    /\ sc[1].result

-----------------------------------------------------------------------------
(* Claims about clear_partitions.                                          *)

\* What one step of clear_partitions must respect according to C2.
C2Step ==
    LET t == devicetree
        t2 == devicetree'
        gone == DOMAIN t \ DOMAIN t2
    IN  /\ \A x \in gone : ~t[x].protected
        /\ \A x \in gone : ~\E y \in DOMAIN t : t[y].protected /\ depends_on(t, y, x)
        /\ \A d \in disks(t) :
              t[d].protected =>
                  /\ children(t2, d) = children(t, d)
                  /\ t2[d].fmt = t[d].fmt
                  /\ t2[d].fmt_exists = t[d].fmt_exists

\* C2: during clear_partitions no protected device is removed, no device
\* that a protected device depends on is removed, and no protected disk
\* loses children or has its disklabel re-initialized.
C2_Original == [][C2Step]_vars

\* The last clear_partitions call ended and was not the first.
Repeated == pc \in {"idle", "raised"} /\ Len(ends) >= 2

\* The last call removed no device and initialized no disklabel.
LastRunIdle ==
    \A i \in 1..Len(log) : log[i].removed = {} /\ ~log[i].initialized

\* C4 as stated: for every configuration, a second clear_partitions right
\* after the first removes no device, initializes no disklabel and leaves
\* the tree as the first left it.
C4_Original ==
    Repeated => /\ LastRunIdle
                /\ ends[Len(ends)].tree = ends[Len(ends) - 1].tree

\* C4 amended: the second call removes no device and leaves the tree as the
\* first left it; it initializes no disklabel when clear_non_existent is
\* not set.
C4_SecondRunChangesNothing ==
    Repeated => /\ \A i \in 1..Len(log) : log[i].removed = {}
                /\ ~config.clear_non_existent => LastRunIdle
                /\ ends[Len(ends)].tree = ends[Len(ends) - 1].tree

\* A second call after a first one that removed devices and initialized a
\* disklabel, clear_non_existent not set.
C4_Witness ==
    /\ pc = "idle"
    /\ Len(ends) = 2
    /\ ~config.clear_non_existent
    /\ DOMAIN ends[1].tree # DOMAIN ends[1].from
    /\ \E d \in disks(ends[1].tree) :
          ends[1].from[d].fmt_exists /\ ~ends[1].tree[d].fmt_exists

\* C5 as stated: after clear_partitions completes, should_clear is False
\* for every partition and every disk still in the tree.
C5_Original ==
    (pc = "idle" /\ Len(ends) >= 1) =>
        \A d \in partitions(devicetree) \cup disks(devicetree) :
            ~should_clear(devicetree, config, d, NoKwargs)

\* C5 amended: after clear_partitions completes, should_clear is False for
\* every partition still in the tree, and for every disk unless
\* clear_non_existent is set and the disk carries an empty disklabel that
\* does not exist yet.
C5_NothingLeftToClear ==
    (pc = "idle" /\ Len(ends) >= 1) =>
        /\ \A p \in partitions(devicetree) :
              ~should_clear(devicetree, config, p, NoKwargs)
        /\ \A d \in disks(devicetree) :
              should_clear(devicetree, config, d, NoKwargs)
                  => /\ config.clear_non_existent
                     /\ devicetree[d].fmt = "disklabel"
                     /\ ~devicetree[d].fmt_exists
                     /\ children(devicetree, d) = {}

\* A completed pass that removed a partition and left another in place.
C5_Witness ==
    /\ pc = "idle"
    /\ Len(ends) = 1
    /\ partitions(ends[1].from) \ DOMAIN devicetree # {}
    /\ partitions(devicetree) # {}

\* The partition filters of should_clear that C9 names: existing,
\* unprotected, in scope, Linux-native.
C9Named(t, p, scope) ==
    /\ is_partition(t, p) /\ t[p].exists /\ ~t[p].protected
    /\ InScope(t, p, scope) /\ linux_native(t[p].fmt)

\* The filters C9 leaves out.
C9Unnamed(t, p) ==
    /\ ~t[p].is_magic /\ (is_primary(t, p) \/ is_logical(t, p))
    /\ ~DependentProtected(t, p)

\* The scenario of C9 in the tree t: disk d holds exactly p1 and p2, and
\* clear_part_devices names p2 alone.
C9Scenario(t, d, p1, p2) ==
    /\ is_disk(t, d) /\ p1 # p2 /\ children(t, d) = {p1, p2}
    /\ C9Named(t, p1, config.clear_part_disks)
    /\ C9Named(t, p2, config.clear_part_disks)
    /\ config.clear_part_type = CLEAR_PARTITIONS_LIST
    /\ config.clear_part_devices = {p2}

\* C9 as stated: under LIST should_clear accepts only devices named in
\* clear_part_devices, and accepts an existing, unprotected, in-scope
\* native-Linux partition exactly when it is named; in the scenario
\* clear_partitions removes sdd2 and leaves sdd1 and sdd.
C9_Original ==
    /\ (sc # <<>> /\ CallType = CLEAR_PARTITIONS_LIST) =>
          /\ sc[1].result => sc[1].dev \in CallDevices
          /\ C9Named(devicetree, sc[1].dev, CallDisks)
                => (sc[1].result <=> sc[1].dev \in CallDevices)
    /\ \A i \in 1..Len(ends) : \A d, p1, p2 \in DOMAIN ends[i].from :
          C9Scenario(ends[i].from, d, p1, p2)
              => (p2 \notin DOMAIN ends[i].tree /\ {p1, d} \subseteq DOMAIN ends[i].tree)

\* C9 amended: the same for partitions that are not magic, are primary or
\* logical, and on which no protected device depends.
C9_ListMode ==
    /\ (sc # <<>> /\ CallType = CLEAR_PARTITIONS_LIST) =>
          /\ sc[1].result => sc[1].dev \in CallDevices
          /\ (C9Named(devicetree, sc[1].dev, CallDisks) /\ C9Unnamed(devicetree, sc[1].dev))
                => (sc[1].result <=> sc[1].dev \in CallDevices)
    /\ \A i \in 1..Len(ends) : \A d, p1, p2 \in DOMAIN ends[i].from :
          ( /\ C9Scenario(ends[i].from, d, p1, p2)
            /\ C9Unnamed(ends[i].from, p1) /\ C9Unnamed(ends[i].from, p2) )
              => (p2 \notin DOMAIN ends[i].tree /\ {p1, d} \subseteq DOMAIN ends[i].tree)

\* clear_part_devices = [sda2], sda holding existing native-Linux sda1 and
\* sda2: the pass removed sda2 and left sda1 and sda.
C9_Witness ==
    /\ pc = "idle"
    /\ Len(ends) = 1
    /\ C9Scenario(ends[1].from, "sda", "sda1", "sda2")
    /\ C9Unnamed(ends[1].from, "sda1") /\ C9Unnamed(ends[1].from, "sda2")
    /\ "sda2" \notin DOMAIN devicetree
    /\ {"sda1", "sda"} \subseteq DOMAIN devicetree

-----------------------------------------------------------------------------
(* Claims about get_free_space                                             *)

FreeType ==
    IF free[1].clear_part_type = "" THEN config.clear_part_type
    ELSE free[1].clear_part_type

\* The disk d is partitioned, and the recorded call approves neither d nor
\* any of its partitions for clearing.
NothingToClear(d) ==
    LET kw == Kwargs({"clear_part_type", "clear_part_disks"}, FreeType, {d}, {})
    IN  /\ devicetree[d].fmt = "disklabel"
        /\ ~should_clear(devicetree, config, d, kw)
        /\ \A p \in DOMAIN devicetree :
              (devicetree[p].kind = "partition" /\ d \in devicetree[p].parents)
                  => ~should_clear(devicetree, config, p, kw)

\* C10: for a partitioned disk that get_free_space approves neither as a
\* whole nor in any of its partitions, disk_free is the free space of the
\* disklabel and fs_free the sum of format.free over its partitions whose
\* format has it; partitions of other disks add nothing.
C10_FreeSpaceAdditive ==
    free # <<>> =>
        \A d \in free[1].disks :
            NothingToClear(d) =>
                LET own == {p \in DOMAIN devicetree :
                               /\ devicetree[p].kind = "partition"
                               /\ d \in devicetree[p].parents
                               /\ devicetree[p].fmt \in {"ext4", "ntfs"}}
                IN  free[1].report[d] = <<devicetree[d].fmt_free, SumFree(devicetree, own)>>

\* A report on two partitioned disks with nothing to clear, each holding a
\* partition whose format reports free space.
C10_Witness ==
    /\ free # <<>>
    /\ free[1].disks = {"sda", "sdb"}
    /\ \A d \in free[1].disks : NothingToClear(d) /\ free[1].report[d][2] > 0

\* The recorded get_free_space call approves the whole disk d for clearing.
Approved(d) ==
    should_clear(devicetree, config, d,
                 Kwargs({"clear_part_type", "clear_part_disks"}, FreeType, {d}, {}))

\* C11: in every report an approved disk has the entry (disk.size, 0), both
\* components of every entry are non-negative, and both are non-zero only
\* for a partitioned disk that is not approved.
C11_ReportShape ==
    free # <<>> =>
        \A d \in free[1].disks :
            LET e == free[1].report[d]
            IN  /\ Approved(d) => e = <<devicetree[d].size, 0>>
                /\ e[1] >= 0 /\ e[2] >= 0
                /\ (e[1] # 0 /\ e[2] # 0)
                      => (devicetree[d].fmt = "disklabel" /\ ~Approved(d))

\* A report with an approved partitioned disk and a disk contributing to
\* both components.
C11_Witness ==
    /\ free # <<>>
    /\ \E d \in free[1].disks :
          Approved(d) /\ devicetree[d].fmt = "disklabel" /\ children(devicetree, d) # {}
    /\ \E d \in free[1].disks : free[1].report[d][1] # 0 /\ free[1].report[d][2] # 0

-----------------------------------------------------------------------------
(* Claims about the filters of should_clear.                               *)

\* The configuration cfg with every field in F that the call passed as a
\* keyword replaced by the keyword's value.
Merged(cfg, kw, F) ==
    [f \in DOMAIN cfg |-> IF f \in F \cap kw.given THEN kw[f] ELSE cfg[f]]

\* C13 as stated: the result is that of the ambient configuration with each
\* of clear_part_type, clear_part_disks, clear_part_devices,
\* initialize_disks and clear_non_existent replaced by its override.
C13_Original ==
    sc # <<>> =>
        sc[1].result =
            should_clear(devicetree,
                         Merged(config, sc[1].kw,
                                {"clear_part_type", "clear_part_disks",
                                 "clear_part_devices", "initialize_disks",
                                 "clear_non_existent"}),
                         sc[1].dev, NoKwargs)

\* C13 amended: overrides of clear_part_type, clear_part_disks and
\* clear_part_devices take precedence over the ambient values; a field
\* without override, and always initialize_disks and clear_non_existent,
\* takes the ambient value.
C13_EffectiveConfiguration ==
    sc # <<>> =>
        sc[1].result =
            should_clear(devicetree,
                         Merged(config, sc[1].kw,
                                {"clear_part_type", "clear_part_disks",
                                 "clear_part_devices"}),
                         sc[1].dev, NoKwargs)

\* A call whose override changes the answer the ambient configuration gives.
C13_Witness ==
    /\ sc # <<>>
    /\ sc[1].kw.given \cap {"clear_part_type", "clear_part_disks", "clear_part_devices"} # {}
    /\ sc[1].result # should_clear(devicetree, config, sc[1].dev, NoKwargs)

\* The keywords kw with clear_part_disks passed as the empty list.
WithoutScope(kw) ==
    [kw EXCEPT !.given = @ \cup {"clear_part_disks"}, !.clear_part_disks = {}]

\* The recorded call would be accepted without a disk scope: a False
\* result is then the work of the scope filter.
AcceptedWithoutScope ==
    should_clear(devicetree, config, sc[1].dev, WithoutScope(sc[1].kw))

\* C16 as stated: with clear_part_disks non-empty the scope filter rejects a
\* device exactly when none of its disks is named (one named disk is enough
\* to pass); with clear_part_disks empty it rejects nothing.
C16_Original ==
    (sc # <<>> /\ AcceptedWithoutScope) =>
        IF CallDisks = {} THEN sc[1].result
        ELSE ~sc[1].result <=> device_disks(devicetree, sc[1].dev) \cap CallDisks = {}

\* C16 amended: with clear_part_disks non-empty the scope filter rejects a
\* device exactly when one of its disks is not named; with clear_part_disks
\* empty it rejects nothing.
C16_ScopeFilter ==
    (sc # <<>> /\ AcceptedWithoutScope) =>
        IF CallDisks = {} THEN sc[1].result
        ELSE ~sc[1].result <=> ~(device_disks(devicetree, sc[1].dev) \subseteq CallDisks)

\* The array md0 spans sda and sdb and only sda is named: rejected.
C16_Witness ==
    /\ sc # <<>>
    /\ AcceptedWithoutScope
    /\ sc[1].dev = "md0"
    /\ device_disks(devicetree, "md0") = {"sda", "sdb"}
    /\ CallDisks = {"sda"}
    /\ ~sc[1].result

\* The tree t with the device d and its format existing.
Existing(t, d) == [t EXCEPT ![d].exists = TRUE, ![d].fmt_exists = TRUE]

\* The device of the recorded call does not exist yet (a disk: its format).
CallNonExistent ==
    IF devicetree[sc[1].dev].kind = "disk" THEN ~devicetree[sc[1].dev].fmt_exists
    ELSE ~devicetree[sc[1].dev].exists

\* C17: with clear_non_existent not set should_clear is False for a disk
\* whose format does not exist and for a non-disk device that does not
\* exist, in every mode; with clear_non_existent set the answer is the one
\* the device would get if it existed.
C17_ExistenceFilter ==
    sc # <<>> =>
        /\ (~config.clear_non_existent /\ CallNonExistent) => ~sc[1].result
        /\ config.clear_non_existent =>
              sc[1].result = should_clear(Existing(devicetree, sc[1].dev), config,
                                          sc[1].dev, sc[1].kw)

\* A device that does not exist yet is accepted with clear_non_existent set.
C17_Witness ==
    /\ sc # <<>>
    /\ config.clear_non_existent
    /\ CallNonExistent
    /\ sc[1].result

\* C18: should_clear is False for a partitioned disk with a non-magic child
\* in every mode but ALL, and for a disk with a hidden format in every mode.
C18_PartitionedAndHiddenDisks ==
    sc # <<>> =>
        LET d == sc[1].dev
            t == devicetree
        IN  t[d].kind = "disk" =>
              /\ ( /\ t[d].fmt = "disklabel"
                   /\ CallType # CLEAR_PARTITIONS_ALL
                   /\ \E c \in DOMAIN t : d \in t[c].parents /\ ~t[c].is_magic )
                    => ~sc[1].result
              /\ t[d].fmt = "multipath_member" => ~sc[1].result

\* sda holds sda1 and sda2, mode LINUX: should_clear(sda) is False, while
\* its partitions sda1 and sda2 are accepted one by one.
C18_Witness ==
    /\ sc # <<>>
    /\ devicetree = TreeLinux
    /\ CallType = CLEAR_PARTITIONS_LINUX
    /\ sc[1].dev = "sda"
    /\ ~sc[1].result
    /\ \A p \in {"sda1", "sda2"} : should_clear(devicetree, config, p, sc[1].kw)

\* C19: under LINUX an unpartitioned disk is rejected unless its format is
\* Linux-native or it is empty and initialize_disks is set, and a
\* partitioned disk with only magic children that passes the scope,
\* existence and protection filters is accepted whatever initialize_disks.
C19_Original ==
    sc # <<>> =>
        LET d == sc[1].dev
            t == devicetree
        IN  (t[d].kind = "disk" /\ CallType = CLEAR_PARTITIONS_LINUX) =>
              /\ (t[d].fmt # "disklabel" /\ sc[1].result)
                    => \/ linux_native(t[d].fmt)
                       \/ (t[d].fmt = "none" /\ config.initialize_disks)
              /\ ( /\ t[d].fmt = "disklabel"
                   /\ \A c \in DOMAIN t : d \in t[c].parents => t[c].is_magic
                   /\ InScope(t, d, CallDisks)
                   /\ (t[d].fmt_exists \/ config.clear_non_existent)
                   /\ ~t[d].protected /\ ~DependentProtected(t, d) )
                    => sc[1].result

-----------------------------------------------------------------------------
(* Claims about the order of clear_partitions.                             *)

\* The place of a log entry in the pass: partitions, then the empty extended
\* partitions, then the disks.
Phase(e) == IF e.op = "partition" THEN 1 ELSE IF e.op = "extended" THEN 2 ELSE 3

\* The log l of a pass that started from the tree t0 is in order: phases
\* follow one another, partitions come in descending number, and every
\* partition of t0 was handled before the extended partitions were.
InOrder(l, t0) ==
    /\ \A i, j \in 1..Len(l) : i < j => Phase(l[i]) <= Phase(l[j])
    /\ \A i, j \in 1..Len(l) :
          (i < j /\ l[i].op = "partition" /\ l[j].op = "partition")
              => t0[l[i].dev].number >= t0[l[j].dev].number
    /\ (\E i \in 1..Len(l) : l[i].op = "extended")
          => {l[i].dev : i \in {k \in 1..Len(l) : l[k].op = "partition"}}
                 = {p \in DOMAIN t0 : t0[p].kind = "partition"}

\* The devices the steps logged in l removed.
RemovedSoFar(l) == UNION {l[i].removed : i \in 1..Len(l)}

\* C20: clear_partitions examines the partitions in descending number, all
\* of them before it removes the empty extended partitions, and those before
\* any disk; every decision is should_clear on the tree that the earlier
\* removals left.
C20_OrderOfSteps ==
    [][ /\ InOrder(log', start')
        /\ (pc' \in {"partitions", "disks"})
              => DOMAIN devicetree' = DOMAIN start' \ RemovedSoFar(log')
        /\ (Len(log') = Len(log) + 1 /\ log'[Len(log')].op \in {"partition", "disk"})
              => log'[Len(log')].cleared
                     = should_clear(devicetree, config, log'[Len(log')].dev, NoKwargs)
      ]_vars

\* A finished pass that removed a partition with a higher number before one
\* with a lower number, and then accepted a disk that should_clear rejected
\* on the tree the pass started from.
C20_Witness ==
    /\ pc = "idle"
    /\ Len(ends) = 1
    /\ \E i, j \in 1..Len(log) :
          /\ i < j /\ log[i].op = "partition" /\ log[j].op = "partition"
          /\ log[i].cleared /\ log[j].cleared
          /\ start[log[i].dev].number > start[log[j].dev].number
    /\ \E i \in 1..Len(log) :
          /\ log[i].op = "disk" /\ log[i].cleared
          /\ ~should_clear(start, config, log[i].dev, NoKwargs)

\* The disk pass is about to handle the disk d.
AtDisk(d) == pc = "disks" /\ todo # <<>> /\ Head(todo) = d

\* The disk d qualifies for a new disklabel: zero_mbr with no recognized
\* format, or should_clear approves it.
ToInitialize(d) ==
    \/ (config.zero_mbr /\ devicetree[d].fmt = "none")
    \/ should_clear(devicetree, config, d, NoKwargs)

C21_Untouched ==
    /\ pc = "idle"
    /\ Len(ends) = 1
    /\ \E i \in 1..Len(log) :
          /\ log[i].op = "disk" /\ ~log[i].cleared /\ ~log[i].initialized
          /\ \E c \in DOMAIN devicetree : log[i].dev \in devicetree[c].parents

-----------------------------------------------------------------------------
(* Claims about the life of the storage object.                            *)

\* A step that reads free_space_snapshot after an earlier read, with a
\* result that differs from the earlier one.
LaterRead == reads # <<>> /\ reads' # reads

\* C12: once free_space_snapshot has been read, every later read returns
\* the stored report without computing get_free_space again, whatever the
\* report holds, until create_free_space_snapshot refreshes it.
C12_Original ==
    [][LaterRead => (reads'[1].value = snapshot[1] /\ ~reads'[1].computed)]_vars

\* A step in which reset() runs, on its own or inside storage_initialize.
ResetStep == resets' # resets

\* C14: after any reset() the five fields of the configuration equal the
\* external settings, with or without kickstart data attached.
C14_Original ==
    [][ResetStep => \A f \in SettingsFields : config'[f] = settings[f]]_vars

\* The last call was storage_initialize and its reset() completed.
Initialized ==
    /\ outcome # <<>>
    /\ outcome[1].op = "storage_initialize"
    /\ outcome[1].result \in {"ok", "UnknownSourceDeviceError"}

\* C15: storage_initialize fails with UnknownSourceDeviceError whenever
\* specs were requested, the system is not a live OS and none of the
\* requested specs resolved to a device; never when no specs were requested
\* or on a live OS.
C15_Original ==
    Initialized =>
        LET requested == outcome[1].protected
            failed == outcome[1].result = "UnknownSourceDeviceError"
        IN  /\ ( /\ requested # {}
                 /\ ~live.is_live_os
                 /\ resolve_protected_device_specs(devicetree, requested) = {} )
                    => failed
            /\ (requested = {} \/ live.is_live_os) => ~failed

\* A step in which the protected device handling of reset() ran on a scanned
\* tree.
MarkedStep == ResetStep /\ outcome'[1].result # "StorageError"

\* The names the resolver has after the step: the resolved specs and the
\* live backing device.
NamedAfter ==
    resolve_protected_device_specs(devicetree', protected_dev_specs')
        \cup (find_live_backing_device(live) \cap DOMAIN devicetree')

AnsweredRaise == si.pc = "answered" /\ si.answer = ERROR_RAISE

\* One statement of storage_initialize, as the claim describes the loop.
C23Step ==
    /\ (si.pc = "loop" /\ si'.last = "StorageError") => si'.pc = "except"
    /\ si.pc = "except" => si'.pc = "answered"
    /\ AnsweredRaise =>
          /\ si'.pc = "out"
          /\ outcome'[1].result = "StorageError"
          /\ devicetree' = devicetree /\ config' = config
    /\ (si.pc = "answered" /\ si.answer # ERROR_RAISE) =>
          /\ si'.pc = "loop"
          /\ outcome' = outcome
    /\ (si.pc # "out" /\ si'.pc = "out"
            /\ outcome'[1].result \in {"ok", "UnknownSourceDeviceError"}) =>
          si.pc = "else" /\ si.last = "ok"
    /\ si.pc # "out" => si'.specs = si.specs
    /\ (si.pc = "out" /\ si'.pc # "out") =>
          /\ Len(si'.specs) = Len(si.specs) + Len(si'.protected)
          /\ SubSeq(si'.specs, 1, Len(si.specs)) = si.specs
          /\ SubSeq(si'.specs, Len(si.specs) + 1, Len(si'.specs)) = si'.protected

\* C23: a StorageError of reset() goes to the error handler; ERROR_RAISE
\* ends the call with the error and runs nothing after the loop, any other
\* answer retries reset(); the call passes the loop only after a reset() that
\* completed; the specs are added once per call; and the call ends once
\* reset() succeeds or the handler answers ERROR_RAISE.
C23_RetryLoop ==
    /\ [][C23Step]_vars
    /\ (si.pc = "else" \/ AnsweredRaise) ~> (si.pc = "out")

\* A call that was given one spec passed the loop after a retry, and the
\* list holds the spec once.
C23_Witness ==
    /\ si.pc = "out"
    /\ outcome # <<>>
    /\ outcome[1].result = "ok"
    /\ si.answer = "ERROR_RETRY"
    /\ si.protected = <<"sda1">>
    /\ Len(si.specs) = si.before + 1

\* A call ended by ERROR_RAISE.
C23_Raised ==
    /\ si.pc = "out"
    /\ outcome # <<>>
    /\ outcome[1].result = "StorageError"
    /\ si.answer = ERROR_RAISE

\* The devices a pass that ended removed from the tree it started from.
Removed(e) == DOMAIN e.from \ DOMAIN e.tree

\* The disks of the tree a pass started from that clear_part_disks leaves out.
Outside(e) == {d \in DOMAIN e.from : is_disk(e.from, d) /\ d \notin config.clear_part_disks}

\* C24 as stated: with clear_part_disks non-empty a pass removes no device
\* residing on a disk outside of it and changes no such disk, its format
\* included.
C24_Original ==
    config.clear_part_disks # {} =>
        \A i \in 1..Len(ends) :
            LET e == ends[i]
            IN  /\ \A d \in Removed(e) :
                      device_disks(e.from, d) \subseteq config.clear_part_disks
                /\ \A disk \in Outside(e) :
                      disk \in DOMAIN e.tree /\ e.tree[disk] = e.from[disk]

\* C24: with clear_part_disks non-empty a pass removes, besides extended
\* partitions without logical ones, no partition of a disk outside of it and
\* no device that resides on outside disks only, and it changes a disk
\* outside of it in one way only: zero_mbr gives a disk without a recognized
\* format a new disklabel.
C24_ScopeFrame ==
    config.clear_part_disks # {} =>
        \A i \in 1..Len(ends) :
            LET e == ends[i]
            IN  /\ \A d \in Removed(e) \ empty_extended(e.from) :
                      /\ device_disks(e.from, d) \cap config.clear_part_disks # {}
                      /\ is_partition(e.from, d)
                            => part_disk(e.from, d) \in config.clear_part_disks
                /\ \A disk \in Outside(e) :
                      /\ disk \in DOMAIN e.tree
                      /\ \/ e.tree[disk] = remove_devices(e.from, empty_extended(e.from)
                                                               \cap Removed(e))[disk]
                         \/ /\ config.zero_mbr
                            /\ e.from[disk].fmt = "none"
                            /\ e.tree[disk] = initialize_disk(e.from, disk)[disk]

\* A pass restricted to sda has removed the array that also resides on sdb,
\* and sdb with its partition is as before.
C24_Witness ==
    /\ config.clear_part_disks = {"sda"}
    /\ Len(ends) >= 1
    /\ "md0" \in Removed(ends[1])
    /\ "sdb1" \in DOMAIN ends[1].tree
    /\ ends[1].tree["sdb"] = ends[1].from["sdb"]

\* A pass restricted to sda has removed the empty extended partition of sdb.
C24_EmptyExtended ==
    /\ config.clear_part_disks = {"sda"}
    /\ Len(ends) >= 1
    /\ "sdb1" \in Removed(ends[1]) \cap empty_extended(ends[1].from)

\* A pass restricted to sda has given the disk sdb, which had no recognized
\* format, a new disklabel through zero_mbr.
C24_ZeroMbr ==
    /\ config.clear_part_disks = {"sda"}
    /\ config.zero_mbr
    /\ Len(ends) >= 1
    /\ ends[1].from["sdb"].fmt = "none"
    /\ ends[1].tree["sdb"].fmt = "disklabel"

\* The configuration with another clear_part_disks and nothing else changed.
WithScope(cfg, ds) == [cfg EXCEPT !.clear_part_disks = ds]

\* C25: the report of get_free_space is the one any other ambient
\* clear_part_disks would have given for the same call.
C25_ScopeIndependent ==
    free # <<>> =>
        \A ds \in SUBSET {d \in DOMAIN devicetree : is_disk(devicetree, d)} :
            free[1].report = get_free_space(devicetree, WithScope(config, ds),
                                            free[1].disks, free[1].clear_part_type)

\* A disk with a partition that the ambient clear_part_disks excludes from
\* clearing is reported with its full size as disk_free.
C25_Witness ==
    /\ free # <<>>
    /\ config.clear_part_disks = {"sda"}
    /\ "sdb" \in free[1].disks
    /\ children(devicetree, "sdb") # {}
    /\ ~should_clear(devicetree, config, "sdb",
                     Kwargs({"clear_part_type"}, FreeType, {}, {}))
    /\ free[1].report["sdb"] = <<devicetree["sdb"].size, 0>>

====
